---- MODULE Spec2Model ----
(***************************************************************************)
(* Byte-range lock (range_lock.hh): a shared resource is divided into      *)
(* regions of _region_size bytes; a range operation walks the regions the  *)
(* range is mapped to in ascending order, taking or releasing each         *)
(* region's readers-writer mutex.  Region entries live in a table guarded  *)
(* by _regions_lock and are reference counted.                             *)
(***************************************************************************)
EXTENDS Integers, Sequences, FiniteSets

\* ------------------------------------------------------------------ bounds
\* Number of concurrent caller threads.
NumCallers == 2
\* Width in bits of the unsigned integers (uint64_t in the code).
Width == 2
\* Region sizes tried are 2^0 .. 2^MaxRegionExp.
MaxRegionExp == 1

Callers == 1..NumCallers
NoCaller == 0

RECURSIVE Pow2(_)
Pow2(n) == IF n = 0 THEN 1 ELSE 2 * Pow2(n - 1)

Modulus == Pow2(Width)
Word == 0..(Modulus - 1)
RegionSizes == {Pow2(k) : k \in 0..MaxRegionExp}
RegionIds == Word

\* ------------------------------------------------- w-bit unsigned arithmetic
Add(a, b) == (a + b) % Modulus
Sub(a, b) == (a - b + Modulus) % Modulus
Mul(a, b) == (a * b) % Modulus

RECURSIVE BitAndN(_, _, _)
BitAndN(a, b, n) ==
    IF n = 0 THEN 0
    ELSE ((a % 2) * (b % 2)) + 2 * BitAndN(a \div 2, b \div 2, n - 1)

BitAnd(a, b) == BitAndN(a, b, Width)
BitNot(a) == (Modulus - 1) - a

VARIABLES
    region_size,        \* range_lock::_region_size
    regions,            \* range_lock::_regions : region id -> region entry
    regions_lock,       \* range_lock::_regions_lock : the caller holding it, or NoCaller
    pc,                 \* per caller: position in the operation it executes
    api,                \* per caller: operation family of the call in progress
    mode,               \* per caller: "excl" or "shared"
    offset,             \* per caller: the call's offset argument
    length,             \* per caller: the call's length argument
    i,                  \* per caller: loop index of do_for_each_region
    visited,            \* per caller: region ids handed to f by the current loop
    locked_region_ids,  \* per caller: try_lock's list of regions it acquired
    failed_assert,      \* the function whose assert failed (the process is gone), or "none"
    created             \* create_range_lock's <<resource_size, exp>> once it ran, else <<>>

vars == <<region_size, regions, regions_lock, pc, api, mode, offset, length, i,
          visited, locked_region_ids, failed_assert, created>>

\* abort() was called by a failed assert: no thread runs any more.
aborted == failed_assert # "none"

\* ------------------------------------------------------------ region entry
\* struct region: refcount = 0 and an unlocked shared_timed_mutex.
NewRegion == [refcount |-> 0, writer |-> FALSE, readers |-> 0]

\* shared_timed_mutex::lock() returns only when nobody holds the mutex.
CanLock(r) == ~r.writer /\ r.readers = 0

\* Mutant of CanLockShared: a shared request is granted like an exclusive one.
CanLockSharedAsExclusive(r) == ~r.writer /\ r.readers = 0

\* shared_timed_mutex::lock_shared() returns only when no writer holds it.
CanLockShared(r) == ~r.writer

\* ------------------------------------------------------ region enumeration
\* Mutant of get_region_id: the divisor is twice the region size.
get_region_id_coarse(off) == off \div (2 * region_size)

get_region_id(off) == off \div region_size

\* Mutant of validate_parameters: the overflow assert is compiled out.
validate_parameters_length_only(off, len) == len > 0

validate_parameters(off, len) == off < Add(off, len) /\ len > 0

aligned_down_offset(off) == BitAnd(off, BitNot(Sub(region_size, 1)))

aligned_up_length(len) ==
    BitAnd(Sub(Add(len, region_size), 1), BitNot(Sub(region_size, 1)))

\* do_for_each_region: number of iterations and the id handed to f at step k.
NumRegions(len) == aligned_up_length(len) \div region_size

RegionIdAt(off, k) ==
    get_region_id(Add(aligned_down_offset(off), Mul(k, region_size)))

\* Mutant of CurrentRegion: shared requests walk their regions downwards.
CurrentRegionSharedDescending(c) ==
    IF mode[c] = "shared"
    THEN RegionIdAt(offset[c], NumRegions(length[c]) - 1 - i[c])
    ELSE RegionIdAt(offset[c], i[c])

\* The region id do_for_each_region hands to f in the caller's iteration i.
CurrentRegion(c) == RegionIdAt(offset[c], i[c])

\* ------------------------------------------------------------------- Init
\* Before the constructor ran there is no instance: region_size = 0 and no
\* failed assert stands for "not constructed yet".
Init ==
    /\ region_size = 0
    /\ regions = [r \in {} |-> NewRegion]
    /\ regions_lock = NoCaller
    /\ pc = [c \in Callers |-> "idle"]
    /\ api = [c \in Callers |-> "none"]
    /\ mode = [c \in Callers |-> "none"]
    /\ offset = [c \in Callers |-> 0]
    /\ length = [c \in Callers |-> 0]
    /\ i = [c \in Callers |-> 0]
    /\ visited = [c \in Callers |-> <<>>]
    /\ locked_region_ids = [c \in Callers |-> <<>>]
    /\ failed_assert = "none"
    /\ created = <<>>

\* ------------------------------------------------------------ table helpers
\* Mutant of lock_guard: the table mutex stays with the caller after the
\* guarded function returned.
lock_guard_kept(c) ==
    /\ regions_lock = NoCaller
    /\ regions_lock' = c

\* std::lock_guard<std::mutex> lock(_regions_lock): the function waits until
\* the table mutex is free, holds it while it runs and leaves it free when it
\* returns.  Nothing inside the three guarded functions blocks, so each of
\* them is one step.
lock_guard(c) ==
    /\ regions_lock = NoCaller
    /\ regions_lock' = NoCaller

\* Mutant of Acquired: the refcount is set on insertion only, a reference to
\* an existing entry is not counted.
AcquiredWithoutCount(id) ==
    [r \in DOMAIN regions \cup {id} |->
        IF r = id
        THEN IF id \in DOMAIN regions
             THEN regions[id]
             ELSE [NewRegion EXCEPT !.refcount = 1]
        ELSE regions[r]]

\* _regions with the entry for id created if absent and its refcount incremented.
Acquired(id) ==
    [r \in DOMAIN regions \cup {id} |->
        IF r = id
        THEN IF id \in DOMAIN regions
             THEN [regions[id] EXCEPT !.refcount = @ + 1]
             ELSE [NewRegion EXCEPT !.refcount = 1]
        ELSE regions[r]]

\* Mutant of Released: the entry is kept when its refcount reaches zero.
ReleasedWithoutErase(id) == [regions EXCEPT ![id].refcount = @ - 1]

\* _regions with id's refcount decremented and the entry erased at zero.
Released(id) ==
    IF regions[id].refcount - 1 = 0
    THEN [r \in DOMAIN regions \ {id} |-> regions[r]]
    ELSE [regions EXCEPT ![id].refcount = @ - 1]

\* The region the caller's current loop iteration works on.
TargetRegion(c) ==
    IF api[c] = "rollback" THEN locked_region_ids[c][i[c] + 1] ELSE CurrentRegion(c)

\* The caller's state once its call has returned.
Returned(c) ==
    /\ pc' = [pc EXCEPT ![c] = "idle"]
    /\ api' = [api EXCEPT ![c] = "none"]
    /\ mode' = [mode EXCEPT ![c] = "none"]
    /\ offset' = [offset EXCEPT ![c] = 0]
    /\ length' = [length EXCEPT ![c] = 0]
    /\ i' = [i EXCEPT ![c] = 0]
    /\ visited' = [visited EXCEPT ![c] = <<>>]
    /\ locked_region_ids' = [locked_region_ids EXCEPT ![c] = <<>>]

\* assert(...) failed: abort() ends the process.
Abort(site) ==
    /\ failed_assert' = site
    /\ UNCHANGED <<region_size, regions, regions_lock, pc, api, mode, offset,
                   length, i, visited, locked_region_ids, created>>

\* ------------------------------------------------------------- constructor
\* Region sizes handed to the constructor: every word below 2^(MaxRegionExp+1).
CtorSizes == {rs \in Word : rs < Pow2(MaxRegionExp + 1)}

constructed == region_size # 0 /\ ~aborted

\* Mutant of range_lock: the power-of-two assert is compiled out.
range_lock_any_positive_size ==
    /\ region_size = 0
    /\ ~aborted
    /\ \E rs \in CtorSizes :
          /\ region_size' = rs
          /\ failed_assert' = IF rs > 0 THEN "none" ELSE "range_lock"
    /\ UNCHANGED <<regions, regions_lock, pc, api, mode, offset, length, i,
                   visited, locked_region_ids, created>>

\* range_lock(region_size): the member is initialised, then the two asserts run.
range_lock ==
    /\ region_size = 0
    /\ ~aborted
    /\ \E rs \in CtorSizes :
          /\ region_size' = rs
          /\ failed_assert' = IF rs > 0 /\ BitAnd(rs, Sub(rs, 1)) = 0
                              THEN "none" ELSE "range_lock"
    /\ UNCHANGED <<regions, regions_lock, pc, api, mode, offset, length, i,
                   visited, locked_region_ids, created>>

\* ------------------------------------------------------- create_range_lock
\* uint64_t resource_size has 64 bits; a double has a 53-bit significand;
\* the smallest exponent create_range_lock uses is 10.
ResourceSizeBits == 64
DoubleMantissaBits == 53
MinRegionExp == 10

\* Resource sizes are written <<k, d>> for the value 2^k + d, d in {0, 1}:
\* the powers of two and their successors over the whole 64-bit range
\* (2^0 + 1 is left out, it is <<1, 0>>).
ResourceSizes ==
    {x \in (0..(ResourceSizeBits - 1)) \X {0, 1} : x[2] = 1 => x[1] >= 1}

\* The conversion uint64_t -> double that std::log2(resource_size) makes:
\* 2^k + 1 needs k + 1 significant bits; beyond the significand it is rounded
\* to the nearest double, ties to even, which is 2^k.
ToDouble(x) ==
    IF x[2] = 1 /\ x[1] >= DoubleMantissaBits THEN <<x[1], 0>> ELSE x

\* ceil(std::log2(d) * 0.5) for the double d = 2^k + d2: log2 is k for a power
\* of two and lies strictly between k and k + 1 otherwise (log2 itself is
\* taken as exact, the outcome most favourable to the code).
CeilHalfLog2(d) ==
    IF d[2] = 0 THEN (d[1] + 1) \div 2 ELSE (d[1] \div 2) + 1

Max(a, b) == IF a >= b THEN a ELSE b

\* create_range_lock(resource_size): the exponent exp of the region size
\* pow(2, exp) handed to the constructor.
create_range_lock ==
    /\ created = <<>>
    /\ \E x \in ResourceSizes :
          created' = <<x, Max(CeilHalfLog2(ToDouble(x)), MinRegionExp)>>
    /\ UNCHANGED <<region_size, regions, regions_lock, pc, api, mode, offset,
                   length, i, visited, locked_region_ids, failed_assert>>

CreateSpec == Init /\ [][create_range_lock]_vars

\* --------------------------------------------------------- acquiring calls
\* Entry of lock / lock_shared / try_lock / try_lock_shared (and of the lock
\* call with_lock makes): validate_parameters, then for_each_region starts.
StartAcquire(c, a, m, off, len) ==
    /\ constructed
    /\ pc[c] = "idle"
    /\ IF ~validate_parameters(off, len)
       THEN Abort("validate_parameters")
       ELSE /\ api' = [api EXCEPT ![c] = a]
            /\ mode' = [mode EXCEPT ![c] = m]
            /\ offset' = [offset EXCEPT ![c] = off]
            /\ length' = [length EXCEPT ![c] = len]
            /\ i' = [i EXCEPT ![c] = 0]
            /\ visited' = [visited EXCEPT ![c] = <<>>]
            /\ pc' = [pc EXCEPT ![c] =
                        IF 0 < NumRegions(len) THEN "get_and_lock_region" ELSE "held"]
            /\ UNCHANGED <<region_size, regions, regions_lock,
                           locked_region_ids, failed_assert,
                   created>>

lock(c) == \E off \in Word, len \in Word : StartAcquire(c, "lock", "excl", off, len)

lock_shared(c) ==
    \E off \in Word, len \in Word : StartAcquire(c, "lock", "shared", off, len)

with_lock(c) ==
    \E off \in Word, len \in Word : StartAcquire(c, "with_lock", "excl", off, len)

with_lock_shared(c) ==
    \E off \in Word, len \in Word : StartAcquire(c, "with_lock", "shared", off, len)

try_lock(c) ==
    \E off \in Word, len \in Word : StartAcquire(c, "try_lock", "excl", off, len)

try_lock_shared(c) ==
    \E off \in Word, len \in Word : StartAcquire(c, "try_lock", "shared", off, len)

\* get_and_lock_region: under the lock_guard, find-or-insert and refcount++.
get_and_lock_region(c) ==
    /\ ~aborted
    /\ pc[c] = "get_and_lock_region"
    /\ lock_guard(c)
    /\ regions' = Acquired(CurrentRegion(c))
    /\ visited' = [visited EXCEPT ![c] = Append(@, CurrentRegion(c))]
    /\ locked_region_ids' =
          [locked_region_ids EXCEPT ![c] =
              IF api[c] = "try_lock" THEN Append(@, CurrentRegion(c)) ELSE @]
    /\ pc' = [pc EXCEPT ![c] = "mutex_lock"]
    /\ UNCHANGED <<region_size, api, mode, offset, length, i, failed_assert,
                   created>>

\* The loop of do_for_each_region moves on after f returned.
AfterLocked(c) ==
    /\ i' = [i EXCEPT ![c] = @ + 1]
    /\ IF i[c] + 1 < NumRegions(length[c])
       THEN /\ pc' = [pc EXCEPT ![c] = "get_and_lock_region"]
            /\ UNCHANGED locked_region_ids
       ELSE /\ pc' = [pc EXCEPT ![c] = "held"]
            /\ locked_region_ids' = [locked_region_ids EXCEPT ![c] = <<>>]

\* r.mutex.lock() in lock's lambda.
mutex_lock(c) ==
    /\ ~aborted
    /\ pc[c] = "mutex_lock"
    /\ api[c] \in {"lock", "with_lock"}
    /\ mode[c] = "excl"
    /\ CurrentRegion(c) \in DOMAIN regions
    /\ CanLock(regions[CurrentRegion(c)])
    /\ regions' = [regions EXCEPT ![CurrentRegion(c)].writer = TRUE]
    /\ AfterLocked(c)
    /\ UNCHANGED <<region_size, regions_lock, api, mode, offset, length, visited,
                   failed_assert,
                   created>>

\* r.mutex.lock_shared() in lock_shared's lambda.
mutex_lock_shared(c) ==
    /\ ~aborted
    /\ pc[c] = "mutex_lock"
    /\ api[c] \in {"lock", "with_lock"}
    /\ mode[c] = "shared"
    /\ CurrentRegion(c) \in DOMAIN regions
    /\ CanLockShared(regions[CurrentRegion(c)])
    /\ regions' = [regions EXCEPT ![CurrentRegion(c)].readers = @ + 1]
    /\ AfterLocked(c)
    /\ UNCHANGED <<region_size, regions_lock, api, mode, offset, length, visited,
                   failed_assert,
                   created>>

\* std::shared_timed_mutex::try_lock / try_lock_shared on the region's mutex
\* inside try_lock's loop: success moves on, failure starts the rollback of
\* every region this call acquired, in ascending order.
mutex_try_lock(c) ==
    /\ ~aborted
    /\ pc[c] = "mutex_lock"
    /\ api[c] = "try_lock"
    /\ CurrentRegion(c) \in DOMAIN regions
    /\ LET id == CurrentRegion(c)
           free == IF mode[c] = "excl" THEN CanLock(regions[id])
                                       ELSE CanLockShared(regions[id])
       IN IF free
          THEN /\ regions' = IF mode[c] = "excl"
                             THEN [regions EXCEPT ![id].writer = TRUE]
                             ELSE [regions EXCEPT ![id].readers = @ + 1]
               /\ AfterLocked(c)
               /\ UNCHANGED api
          ELSE /\ api' = [api EXCEPT ![c] = "rollback"]
               /\ i' = [i EXCEPT ![c] = 0]
               /\ pc' = [pc EXCEPT ![c] =
                           IF Len(locked_region_ids[c]) = 1
                           THEN "unlock_region" ELSE "mutex_unlock"]
               /\ UNCHANGED <<regions, locked_region_ids>>
    /\ UNCHANGED <<region_size, regions_lock, mode, offset, length, visited, failed_assert,
                   created>>

\* try_lock returned false to its caller.
try_lock_failed(c) ==
    /\ ~aborted
    /\ pc[c] = "try_failed"
    /\ Returned(c)
    /\ UNCHANGED <<region_size, regions, regions_lock, failed_assert,
                   created>>

\* ---------------------------------------------------------- releasing calls
\* Entry of unlock / unlock_shared: validate_parameters, then for_each_region.
StartRelease(c) ==
    IF ~validate_parameters(offset[c], length[c])
    THEN Abort("validate_parameters")
    ELSE /\ IF 0 < NumRegions(length[c])
            THEN /\ pc' = [pc EXCEPT ![c] = "get_locked_region"]
                 /\ i' = [i EXCEPT ![c] = 0]
                 /\ visited' = [visited EXCEPT ![c] = <<>>]
                 /\ UNCHANGED <<api, mode, offset, length, locked_region_ids>>
            ELSE Returned(c)
         /\ UNCHANGED <<region_size, regions, regions_lock, failed_assert,
                   created>>

\* The caller that locked a range with lock or try_lock unlocks it.
unlock(c) ==
    /\ ~aborted
    /\ pc[c] = "held"
    /\ api[c] \in {"lock", "try_lock"}
    /\ mode[c] = "excl"
    /\ StartRelease(c)

unlock_shared(c) ==
    /\ ~aborted
    /\ pc[c] = "held"
    /\ api[c] \in {"lock", "try_lock"}
    /\ mode[c] = "shared"
    /\ StartRelease(c)

\* with_lock / with_lock_shared: func() returns, so the unlock call runs.
func_returns(c) ==
    /\ ~aborted
    /\ pc[c] = "held"
    /\ api[c] = "with_lock"
    /\ StartRelease(c)

\* with_lock / with_lock_shared: func() throws; the exception leaves with_lock
\* at once, the unlock call after func() is skipped.
func_throws(c) ==
    /\ ~aborted
    /\ pc[c] = "held"
    /\ api[c] = "with_lock"
    /\ pc' = [pc EXCEPT ![c] = "thrown"]
    /\ UNCHANGED <<region_size, regions, regions_lock, api, mode, offset, length,
                   i, visited, locked_region_ids, failed_assert,
                   created>>

\* get_locked_region: under the lock_guard, find and the two asserts.
get_locked_region(c) ==
    /\ ~aborted
    /\ pc[c] = "get_locked_region"
    /\ regions_lock = NoCaller
    /\ IF CurrentRegion(c) \in DOMAIN regions /\ regions[CurrentRegion(c)].refcount > 0
       THEN /\ lock_guard(c)
            /\ visited' = [visited EXCEPT ![c] = Append(@, CurrentRegion(c))]
            /\ pc' = [pc EXCEPT ![c] = "mutex_unlock"]
            /\ UNCHANGED <<region_size, regions, api, mode, offset, length, i,
                           locked_region_ids, failed_assert,
                   created>>
       ELSE Abort("get_locked_region")

\* Mutant of mutex_unlock: the lambda goes on to unlock_region without
\* unlocking the region's mutex.
mutex_unlock_forgotten(c) ==
    /\ ~aborted
    /\ pc[c] = "mutex_unlock"
    /\ api[c] # "unlock"
    /\ mode[c] = "excl"
    /\ TargetRegion(c) \in DOMAIN regions
    /\ pc' = [pc EXCEPT ![c] = "unlock_region"]
    /\ UNCHANGED <<region_size, regions, regions_lock, api, mode, offset, length,
                   i, visited, locked_region_ids, failed_assert,
                   created>>

\* r.mutex.unlock() in unlock's lambda.
mutex_unlock(c) ==
    /\ ~aborted
    /\ pc[c] = "mutex_unlock"
    /\ api[c] # "unlock"
    /\ mode[c] = "excl"
    /\ TargetRegion(c) \in DOMAIN regions
    /\ regions' = [regions EXCEPT ![TargetRegion(c)].writer = FALSE]
    /\ pc' = [pc EXCEPT ![c] = "unlock_region"]
    /\ UNCHANGED <<region_size, regions_lock, api, mode, offset, length, i,
                   visited, locked_region_ids, failed_assert,
                   created>>

\* r.mutex.unlock_shared() in unlock_shared's lambda.
mutex_unlock_shared(c) ==
    /\ ~aborted
    /\ pc[c] = "mutex_unlock"
    /\ api[c] # "unlock"
    /\ mode[c] = "shared"
    /\ TargetRegion(c) \in DOMAIN regions
    /\ regions' = [regions EXCEPT ![TargetRegion(c)].readers = @ - 1]
    /\ pc' = [pc EXCEPT ![c] = "unlock_region"]
    /\ UNCHANGED <<region_size, regions_lock, api, mode, offset, length, i,
                   visited, locked_region_ids, failed_assert,
                   created>>

\* unlock_region: under the lock_guard, find, assert, --refcount and erase.
\* The loop moves on after unlock_region returned: the next region of the
\* range, or of the rollback list (whose last region was never locked).
\* Mutant of AfterReleased: unlock's loop ends after its first region.
AfterReleasedFirstOnly(c) ==
    IF api[c] = "rollback"
    THEN /\ pc' = [pc EXCEPT ![c] = "try_failed"]
         /\ UNCHANGED <<api, mode, offset, length, i, visited, locked_region_ids>>
    ELSE Returned(c)

AfterReleased(c) ==
    IF api[c] = "rollback"
    THEN IF i[c] + 1 < Len(locked_region_ids[c])
         THEN /\ i' = [i EXCEPT ![c] = @ + 1]
              /\ pc' = [pc EXCEPT ![c] =
                          IF i[c] + 2 < Len(locked_region_ids[c])
                          THEN "mutex_unlock" ELSE "unlock_region"]
              /\ UNCHANGED <<api, mode, offset, length, visited, locked_region_ids>>
         ELSE /\ pc' = [pc EXCEPT ![c] = "try_failed"]
              /\ UNCHANGED <<api, mode, offset, length, i, visited, locked_region_ids>>
    ELSE IF i[c] + 1 < NumRegions(length[c])
         THEN /\ i' = [i EXCEPT ![c] = @ + 1]
              /\ pc' = [pc EXCEPT ![c] = "get_locked_region"]
              /\ UNCHANGED <<api, mode, offset, length, visited, locked_region_ids>>
         ELSE Returned(c)

unlock_region(c) ==
    /\ ~aborted
    /\ pc[c] = "unlock_region"
    /\ regions_lock = NoCaller
    /\ IF TargetRegion(c) \in DOMAIN regions
       THEN /\ lock_guard(c)
            /\ regions' = Released(TargetRegion(c))
            /\ AfterReleased(c)
            /\ UNCHANGED <<region_size, failed_assert,
                   created>>
       ELSE Abort("unlock_region")

\* ------------------------------------------------------------ specification
Step(c) ==
    \/ get_and_lock_region(c)
    \/ mutex_lock(c)
    \/ mutex_lock_shared(c)
    \/ mutex_try_lock(c)
    \/ try_lock_failed(c)
    \/ unlock(c)
    \/ unlock_shared(c)
    \/ func_returns(c)
    \/ func_throws(c)
    \/ get_locked_region(c)
    \/ mutex_unlock(c)
    \/ mutex_unlock_shared(c)
    \/ unlock_region(c)

Call(c) ==
    \/ lock(c)
    \/ lock_shared(c)
    \/ with_lock(c)
    \/ with_lock_shared(c)
    \/ try_lock(c)
    \/ try_lock_shared(c)

Next == range_lock \/ \E c \in Callers : Call(c) \/ Step(c)

Spec == Init /\ [][Next]_vars

\* Every thread inside a call, or holding a range it will unlock, is
\* eventually scheduled; nothing obliges an idle thread to start a call.
FairSpec == Spec /\ \A c \in Callers : WF_vars(Step(c))

\* ------------------------------------------------- callers off the protocol
\* Entry of an unlock / unlock_shared call made by a thread that holds no
\* range: validate_parameters, then for_each_region with get_locked_region.
StartUnmatched(c, m, off, len) ==
    /\ constructed
    /\ pc[c] = "idle"
    /\ IF ~validate_parameters(off, len)
       THEN Abort("validate_parameters")
       ELSE /\ IF 0 < NumRegions(len)
               THEN /\ api' = [api EXCEPT ![c] = "unlock"]
                    /\ mode' = [mode EXCEPT ![c] = m]
                    /\ offset' = [offset EXCEPT ![c] = off]
                    /\ length' = [length EXCEPT ![c] = len]
                    /\ pc' = [pc EXCEPT ![c] = "get_locked_region"]
                    /\ UNCHANGED <<i, visited, locked_region_ids>>
               ELSE Returned(c)
            /\ UNCHANGED <<region_size, regions, regions_lock, failed_assert,
                   created>>

unmatched_unlock(c) ==
    \E off \in Word, len \in Word : StartUnmatched(c, "excl", off, len)

unmatched_unlock_shared(c) ==
    \E off \in Word, len \in Word : StartUnmatched(c, "shared", off, len)

\* r.mutex.unlock() / unlock_shared() by a thread that does not own the mutex
\* is undefined behaviour; the outcomes kept are: the call has no effect, it
\* releases the exclusive owner, it releases one shared owner.
unowned_mutex_unlock(c) ==
    /\ ~aborted
    /\ pc[c] = "mutex_unlock"
    /\ api[c] = "unlock"
    /\ TargetRegion(c) \in DOMAIN regions
    /\ \E outcome \in {"no effect", "writer released", "reader released"} :
          regions' =
             IF outcome = "writer released"
             THEN [regions EXCEPT ![TargetRegion(c)].writer = FALSE]
             ELSE IF outcome = "reader released" /\ regions[TargetRegion(c)].readers > 0
             THEN [regions EXCEPT ![TargetRegion(c)].readers = @ - 1]
             ELSE regions
    /\ pc' = [pc EXCEPT ![c] = "unlock_region"]
    /\ UNCHANGED <<region_size, regions_lock, api, mode, offset, length, i,
                   visited, locked_region_ids, failed_assert,
                   created>>

\* The region& a lambda holds designates an entry another thread erased: using
\* its mutex is undefined behaviour; the outcomes kept are a crash and a call
\* that goes on without any effect on the table.
dangling_region(c) ==
    /\ ~aborted
    /\ pc[c] \in {"mutex_lock", "mutex_unlock"}
    /\ TargetRegion(c) \notin DOMAIN regions
    /\ \E outcome \in {"crash", "goes on"} :
          IF outcome = "crash"
          THEN Abort("SIGSEGV")
          ELSE /\ IF pc[c] = "mutex_lock"
                  THEN AfterLocked(c)
                  ELSE /\ pc' = [pc EXCEPT ![c] = "unlock_region"]
                       /\ UNCHANGED <<i, locked_region_ids>>
               /\ UNCHANGED <<region_size, regions, regions_lock, api, mode,
                              offset, length, visited, failed_assert,
                   created>>

Misuse(c) ==
    \/ unmatched_unlock(c)
    \/ unmatched_unlock_shared(c)
    \/ unowned_mutex_unlock(c)
    \/ dangling_region(c)

\* The four primitive operations, on and off the protocol.
Primitive(c) ==
    \/ lock(c)
    \/ lock_shared(c)
    \/ get_and_lock_region(c)
    \/ mutex_lock(c)
    \/ mutex_lock_shared(c)
    \/ unlock(c)
    \/ unlock_shared(c)
    \/ get_locked_region(c)
    \/ mutex_unlock(c)
    \/ mutex_unlock_shared(c)
    \/ unlock_region(c)

MisuseNext == range_lock \/ \E c \in Callers : Primitive(c) \/ Misuse(c)

MisuseSpec == Init /\ [][MisuseNext]_vars

\* ============================================================== properties
\* Vocabulary of the properties.

\* The bytes of the range [offset, offset + length) of the caller's call.
ByteRange(c) == {b \in Word : offset[c] <= b /\ b < offset[c] + length[c]}

Overlap(c, d) == ByteRange(c) \cap ByteRange(d) # {}

\* The caller is past its lock call and before its matching unlock call.
Held(c) == pc[c] = "held"

\* Ids of the regions containing a byte of the caller's range:
\* floor(offset / region_size) .. floor((offset + length - 1) / region_size).
FirstCovered(c) == offset[c] \div region_size
LastCovered(c) == (offset[c] + length[c] - 1) \div region_size
Cover(c) == FirstCovered(c)..LastCovered(c)
CoverSeq(c) == [k \in 1..(LastCovered(c) - FirstCovered(c) + 1) |-> FirstCovered(c) + k - 1]

Range(seq) == {seq[k] : k \in DOMAIN seq}

\* The round-up of the caller's length, length + region_size - 1, fits the
\* word (the wrapping case is property C20's).
RoundUpFits(c) == length[c] + region_size - 1 < Modulus

\* Loop indices (or rollback list positions) of the regions a caller has a
\* reference on, and of those whose mutex it holds, by its position.
AllIndices(c) == 0..(NumRegions(length[c]) - 1)

RefIndices(c) ==
    IF api[c] = "rollback"
    THEN IF pc[c] \in {"mutex_unlock", "unlock_region"}
         THEN i[c]..(Len(locked_region_ids[c]) - 1) ELSE {}
    ELSE CASE pc[c] = "get_and_lock_region" -> 0..(i[c] - 1)
           [] pc[c] = "mutex_lock" -> 0..i[c]
           [] pc[c] \in {"held", "thrown"} -> AllIndices(c)
           [] pc[c] \in {"get_locked_region", "mutex_unlock", "unlock_region"} ->
                 i[c]..(NumRegions(length[c]) - 1)
           [] OTHER -> {}

LockIndices(c) ==
    IF api[c] = "rollback"
    THEN CASE pc[c] = "mutex_unlock" -> i[c]..(Len(locked_region_ids[c]) - 2)
           [] pc[c] = "unlock_region" -> (i[c] + 1)..(Len(locked_region_ids[c]) - 2)
           [] OTHER -> {}
    ELSE CASE pc[c] \in {"get_and_lock_region", "mutex_lock"} -> 0..(i[c] - 1)
           [] pc[c] \in {"held", "thrown"} -> AllIndices(c)
           [] pc[c] \in {"get_locked_region", "mutex_unlock"} ->
                 i[c]..(NumRegions(length[c]) - 1)
           [] pc[c] = "unlock_region" -> (i[c] + 1)..(NumRegions(length[c]) - 1)
           [] OTHER -> {}

IdAtIndex(c, k) ==
    IF api[c] = "rollback" THEN locked_region_ids[c][k + 1] ELSE RegionIdAt(offset[c], k)

\* Number of references the callers of S have on region r, and of mutex
\* holds in mode m.
RefsBy(S, r) ==
    Cardinality({p \in S \X Word : p[2] \in RefIndices(p[1]) /\ IdAtIndex(p[1], p[2]) = r})

LocksBy(S, r, m) ==
    Cardinality({p \in S \X Word :
        /\ mode[p[1]] = m
        /\ p[2] \in LockIndices(p[1])
        /\ IdAtIndex(p[1], p[2]) = r})

\* The table and every region mutex are what the callers of S alone account for.
TableIsOf(S) ==
    \A r \in RegionIds :
        /\ (r \in DOMAIN regions) = (RefsBy(S, r) > 0)
        /\ r \in DOMAIN regions =>
              /\ regions[r].refcount = RefsBy(S, r)
              /\ regions[r].writer = (LocksBy(S, r, "excl") > 0)
              /\ regions[r].readers = LocksBy(S, r, "shared")

\* C1: no two callers are both past lock() and before the matching unlock()
\* on ranges that share a byte (stated for the ranges whose length round-up
\* does not wrap, aligned or not).
C1_MutualExclusion ==
    \A c, d \in Callers :
        (c # d /\ Held(c) /\ Held(d) /\ RoundUpFits(c) /\ RoundUpFits(d)
           /\ api[c] = "lock" /\ mode[c] = "excl"
           /\ api[d] = "lock" /\ mode[d] = "excl")
        => ~Overlap(c, d)

\* C2: a range held through lock() and a range held through lock_shared()
\* by another caller never share a byte (stated for the ranges whose length
\* round-up does not wrap).
C2_SharedExcludesExclusive ==
    \A c, d \in Callers :
        (c # d /\ Held(c) /\ Held(d) /\ RoundUpFits(c) /\ RoundUpFits(d)
           /\ api[c] = "lock" /\ mode[c] = "excl"
           /\ api[d] = "lock" /\ mode[d] = "shared")
        => ~Overlap(c, d)

\* C7: once lock / lock_shared has returned, the region ids it visited are
\* floor(offset/region_size), ..., floor((offset+length-1)/region_size), each
\* once, in ascending order (stated for the ranges whose length round-up does
\* not wrap).
C7_RegionCovering ==
    \A c \in Callers :
        (Held(c) /\ api[c] = "lock" /\ RoundUpFits(c)) => visited[c] = CoverSeq(c)

\* C10: when func() has thrown out of with_lock / with_lock_shared, the caller
\* holds no region and its references are gone: the table is what the other
\* callers account for.
C10_ScopedRelease ==
    \A c \in Callers : pc[c] = "thrown" => TableIsOf(Callers \ {c})

\* C3: a lock_shared call never waits while no caller has an exclusive request
\* in progress or held, and when all NumCallers callers hold the same range
\* through lock_shared each of its regions has refcount (and reader count)
\* NumCallers.
C3_SharedHoldersCoexist ==
    /\ \A c \in Callers :
          (pc[c] = "mutex_lock" /\ api[c] = "lock" /\ mode[c] = "shared"
             /\ \A d \in Callers : mode[d] # "excl")
          => CanLockShared(regions[CurrentRegion(c)])
    /\ (\A c, d \in Callers :
            /\ Held(c) /\ api[c] = "lock" /\ mode[c] = "shared"
            /\ offset[c] = offset[d] /\ length[c] = length[d])
       => \A c \in Callers : \A r \in Range(visited[c]) :
             /\ r \in DOMAIN regions
             /\ regions[r].refcount = NumCallers
             /\ regions[r].readers = NumCallers

\* C3 witness: every caller holds the same range through lock_shared, and the
\* range's first region has refcount NumCallers.
C3_AllShareOneRange ==
    /\ \A c, d \in Callers :
          /\ Held(c) /\ api[c] = "lock" /\ mode[c] = "shared"
          /\ offset[c] = offset[d] /\ length[c] = length[d]
    /\ \A c \in Callers :
          /\ visited[c] # <<>>
          /\ regions[visited[c][1]].refcount = NumCallers

\* C4: while no assert has failed and no with_lock body has thrown, whenever a
\* caller is waiting for a region's mutex some caller inside a call (or
\* holding a range) can take a step: there is no circular wait.
C4_DeadlockFree ==
    (/\ ~aborted
     /\ \A c \in Callers : pc[c] # "thrown"
     /\ \E c \in Callers : pc[c] = "mutex_lock")
    => \E d \in Callers : pc[d] # "idle" /\ ENABLED Step(d)

\* C4 witness: a caller that already holds one region's mutex is blocked on
\* the next region of its range, which another caller has locked.
C4_BlockedMidRange ==
    \E c \in Callers :
        /\ pc[c] = "mutex_lock" /\ api[c] = "lock" /\ i[c] > 0
        /\ ~ENABLED Step(c)
        /\ \A d \in Callers : pc[d] # "thrown"
        /\ ~aborted

\* C6 (original): a lock() never waits for another caller's exclusive hold
\* on a range that shares no byte with its own.
C6_DisjointBytesIndependent ==
    \A c, d \in Callers :
        (/\ c # d
         /\ pc[c] = "mutex_lock" /\ api[c] = "lock" /\ mode[c] = "excl"
         /\ Held(d) /\ api[d] = "lock" /\ mode[d] = "excl"
         /\ ~Overlap(c, d)
         /\ \A e \in Callers \ {c, d} : pc[e] = "idle")
        => CanLock(regions[CurrentRegion(c)])

\* C6 (amended): a lock() never waits for another caller's exclusive hold on
\* a range lying in other regions than its own (no region contains a byte of
\* both ranges).
C6_DisjointRegionsIndependent ==
    \A c, d \in Callers :
        (/\ c # d
         /\ pc[c] = "mutex_lock" /\ api[c] = "lock" /\ mode[c] = "excl"
         /\ Held(d) /\ api[d] = "lock" /\ mode[d] = "excl"
         /\ Cover(c) \cap Cover(d) = {}
         /\ \A e \in Callers \ {c, d} : pc[e] = "idle")
        => CanLock(regions[CurrentRegion(c)])

\* C6 witness: two callers hold, exclusively and at the same time, ranges
\* lying in different regions, each with a region locked.
C6_BothHeldDisjoint ==
    \E c, d \in Callers :
        /\ c # d
        /\ Held(c) /\ api[c] = "lock" /\ mode[c] = "excl" /\ visited[c] # <<>>
        /\ Held(d) /\ api[d] = "lock" /\ mode[d] = "excl" /\ visited[d] # <<>>
        /\ Cover(c) \cap Cover(d) = {}

C9_TryLockOutcome ==
    \A c, d \in Callers :
        (/\ c # d
         /\ Held(c) /\ api[c] = "try_lock" /\ mode[c] = "excl"
         /\ Held(d)
         /\ RoundUpFits(c) /\ RoundUpFits(d))
        => ~Overlap(c, d)

\* An assert has failed or a with_lock body has thrown.
Fault == aborted \/ \E c \in Callers : pc[c] = "thrown"

\* The caller's lock() waits for a region that is exclusively locked.
BlockedOnExclusive(c) ==
    /\ pc[c] = "mutex_lock" /\ api[c] = "lock" /\ mode[c] = "excl"
    /\ regions[CurrentRegion(c)].writer

\* C5 (original): under weak fairness, with every holder unlocking, a lock()
\* blocked on an exclusive hold eventually holds its range.
C5_BlockedLockProgress ==
    \A c \in Callers : BlockedOnExclusive(c) ~> (Held(c) \/ Fault)

\* C5 (amended): the same, provided the other callers eventually stop
\* issuing requests (each of them ends idle for good).
C5_BlockedLockProgressWhenOthersStop ==
    \A c \in Callers :
        (<>[](\A d \in Callers \ {c} : pc[d] = "idle"))
        => (BlockedOnExclusive(c) ~> (Held(c) \/ Fault))

\* C5 witness: a lock() waits for a region another caller has locked
\* exclusively.
C5_SomeLockBlocked ==
    \E c \in Callers : BlockedOnExclusive(c) /\ ~Fault

\* ----------------------------------------------------------- invalid ranges
\* The range has at least one byte and ends inside the address space
\* (unbounded integers: no wrap).
ValidRange(off, len) == len > 0 /\ off + len < Modulus

\* Caller c enters lock, lock_shared, unlock or unlock_shared with (off, len).
RangeCall(c, off, len) ==
    \E m \in {"excl", "shared"} :
        StartAcquire(c, "lock", m, off, len) \/ StartUnmatched(c, m, off, len)

\* C11: a lock, lock_shared, unlock or unlock_shared call whose length is 0
\* or whose offset + length overflows fails in validate_parameters and leaves
\* the region table, the region locks and every caller as they were; hence
\* every call that is under way has a valid range.
C11_InvalidRangeRejected ==
    /\ [](\A c \in Callers : pc[c] # "idle" => ValidRange(offset[c], length[c]))
    /\ [][\A c \in Callers, off \in Word, len \in Word :
            (~ValidRange(off, len) /\ RangeCall(c, off, len))
            => (/\ failed_assert' = "validate_parameters"
                /\ UNCHANGED <<regions, regions_lock, pc, visited>>)]_vars

\* C11 witness: validation has failed while a range is held, and the table
\* still has the holder's entries.
C11_RejectedBesideHolder ==
    /\ failed_assert = "validate_parameters"
    /\ \E c \in Callers : Held(c) /\ visited[c] # <<>>
                           /\ Range(visited[c]) \subseteq DOMAIN regions

\* ------------------------------------------------------------- region table
\* The caller is inside the loop of its unlock / unlock_shared call.
Unlocking(c) ==
    /\ api[c] \in {"lock", "with_lock", "try_lock"}
    /\ pc[c] \in {"get_locked_region", "mutex_unlock", "unlock_region"}

\* C12: with every caller on the lock-then-matching-unlock protocol, every
\* region id in the table has refcount > 0, and a region id is absent from the
\* table exactly when no caller has an outstanding reference to it.
C12_TableInvariant ==
    \A r \in RegionIds :
        /\ r \in DOMAIN regions => regions[r].refcount > 0
        /\ (r \notin DOMAIN regions) = (RefsBy(Callers, r) = 0)

\* C12 witness: an unlock has erased the first region of its range and still
\* has an entry for the second, while another caller is inside a call.
C12_ErasedAndPresent ==
    \E c \in Callers :
        /\ Unlocking(c) /\ i[c] > 0
        /\ RegionIdAt(offset[c], 0) \notin DOMAIN regions
        /\ CurrentRegion(c) \in DOMAIN regions
        /\ \E d \in Callers \ {c} : pc[d] # "idle"

\* C13: while a caller unlocks the range it locked with the same arguments,
\* every region it is done with is out of the table unless another caller
\* references it; and when every lock / lock_shared issued so far has been
\* matched by its unlock / unlock_shared, the table is empty.
C13_NoLeakedEntries ==
    /\ \A c \in Callers : \A k \in Word :
          (Unlocking(c) /\ k < i[c]
           /\ RegionIdAt(offset[c], k) \in DOMAIN regions)
          => RefsBy(Callers \ {c}, RegionIdAt(offset[c], k)) > 0
    /\ (constructed /\ \A c \in Callers : pc[c] = "idle") => DOMAIN regions = {}

\* C13 witness: the only caller inside a call is unlocking a range of several
\* regions, and the regions it is done with are out of the table.
C13_SoleUnlockerErased ==
    \E c \in Callers :
        /\ Unlocking(c) /\ api[c] = "lock" /\ i[c] > 0
        /\ \A k \in 0..(i[c] - 1) : RegionIdAt(offset[c], k) \notin DOMAIN regions
        /\ \A d \in Callers \ {c} : pc[d] = "idle"

\* ------------------------------------------------------ region-size selection
\* 4^e >= 2^k + d, in integers.
FourPowerReaches(e, x) == IF x[2] = 0 THEN 2 * e >= x[1] ELSE 2 * e > x[1]

\* ceil(log2(resource_size) * 0.5) over the reals: the least e with
\* 4^e >= resource_size.
ExactCeilHalfLog2(x) ==
    CHOOSE e \in 0..ResourceSizeBits :
        FourPowerReaches(e, x) /\ (e > 0 => ~FourPowerReaches(e - 1, x))

\* C14: create_range_lock(resource_size) constructs the range_lock with
\* region_size = 2^exp, exp = max(ceil(log2(resource_size) * 0.5), 10), for
\* every resource_size >= 1; exp is at least 10 (region_size >= 1024), and
\* resource_size = 2^30 gives 32768.
C14_RegionSizeSelection ==
    created # <<>> =>
        /\ created[2] = Max(ExactCeilHalfLog2(created[1]), MinRegionExp)
        /\ created[2] >= MinRegionExp
        /\ created[1] = <<30, 0>> => Pow2(created[2]) = 32768

\* -------------------------------------------------------------- construction
\* C15: a constructor call with a region size that is zero or not a power of
\* two fails its assert and no operation ever runs on that object; every
\* instance range operations run on has a positive power of two as region
\* size, and the region size never changes once set.
C15_RegionSizeValidated ==
    /\ []((region_size # 0 /\ region_size \notin RegionSizes)
             => failed_assert = "range_lock")
    /\ [](failed_assert = "range_lock"
             => (DOMAIN regions = {} /\ \A c \in Callers : pc[c] = "idle"))
    /\ []((\E c \in Callers : pc[c] # "idle") => region_size \in RegionSizes)
    /\ [][region_size # 0 => region_size' = region_size]_vars

\* C15 witness: the constructor was called with a positive region size that
\* is not a power of two, and its assert failed.
C15_NonPowerOfTwoRejected ==
    /\ failed_assert = "range_lock"
    /\ region_size # 0 /\ region_size \notin RegionSizes

\* -------------------------------------------------------------- table mutex
\* The caller is at one of the three functions that take _regions_lock.
AtTableFunction(c) ==
    pc[c] \in {"get_and_lock_region", "get_locked_region", "unlock_region"}

TableFunction(c) ==
    get_and_lock_region(c) \/ get_locked_region(c) \/ unlock_region(c)

C17_UnmatchedUnlockCaught ==
    \A c \in Callers : api[c] = "unlock" => pc[c] = "get_locked_region"

\* ------------------------------------------------------- refcount accounting
\* The refcount of region r, 0 when the table has no entry for r.
Refcount(r) == IF r \in DOMAIN regions THEN regions[r].refcount ELSE 0

\* C18: for every region id the entry's refcount is the number of callers
\* that have run get_and_lock_region for it and not yet unlock_region,
\* holders and waiters alike; so the entry of a region whose mutex a caller
\* holds or waits for is in the table.
C18_RefcountAccounting ==
    /\ \A r \in RegionIds : Refcount(r) = RefsBy(Callers, r)
    /\ \A c \in Callers :
          /\ pc[c] = "mutex_lock" => CurrentRegion(c) \in DOMAIN regions
          /\ \A k \in LockIndices(c) : IdAtIndex(c, k) \in DOMAIN regions

\* C18 witness: one caller holds a region and another waits for it: the
\* entry counts both.
C18_HolderAndWaiterCounted ==
    \E c \in Callers : \E d \in Callers \ {c} :
        /\ BlockedOnExclusive(c)
        /\ Held(d) /\ CurrentRegion(c) \in Range(visited[d])
        /\ regions[CurrentRegion(c)].refcount = 2

\* ---------------------------------------------------------- unlock's progress
\* The mutex of region r is in the state the callers other than c account for.
MutexIsOfOthers(c, r) ==
    /\ regions[r].writer = (LocksBy(Callers \ {c}, r, "excl") > 0)
    /\ regions[r].readers = LocksBy(Callers \ {c}, r, "shared")

\* C19: a caller inside unlock / unlock_shared on the range it holds can
\* always take its next step unless the table mutex is busy (it never waits
\* for a region mutex); when it is about to decrement a region's refcount it
\* has already released that region's mutex; and with the caller's steps
\* weakly fair the call returns.
C19_UnlockTerminates ==
    /\ [](\A c \in Callers :
            (Unlocking(c) /\ ~aborted /\ regions_lock = NoCaller) => ENABLED Step(c))
    /\ [](\A c \in Callers :
            (Unlocking(c) /\ pc[c] = "unlock_region")
            => MutexIsOfOthers(c, TargetRegion(c)))
    /\ \A c \in Callers : Unlocking(c) ~> (pc[c] = "idle" \/ aborted)

\* C19 witness: a caller is inside unlock, past the first region of its
\* range, while another caller is blocked on a region mutex.
C19_UnlockBesideBlocked ==
    \E c \in Callers : \E d \in Callers \ {c} :
        /\ Unlocking(c) /\ i[c] > 0 /\ ~aborted
        /\ BlockedOnExclusive(d)

\* ------------------------------------------------------------ length round-up
\* C20: for a range that passed validate_parameters the round-up of the
\* length does not wrap, so a lock / lock_shared call that has returned
\* visited at least one region, the region containing offset among them.
C20_RoundUpDoesNotWrap ==
    \A c \in Callers :
        (Held(c) /\ api[c] \in {"lock", "with_lock"}) =>
            /\ RoundUpFits(c)
            /\ visited[c] # <<>>
            /\ get_region_id(offset[c]) \in Range(visited[c])

====
